---- MODULE Spec2Model ----
(***************************************************************************)
(* Model of scripts/data/prove_pow.py: the sequential batch orchestrator   *)
(* (main), the batch job (prove_batch), the three-step pipeline driver     *)
(* (run_prover), the resume locator (auto_detect_start) and the part of    *)
(* the file system under .proofs/ that they read and write.                *)
(*                                                                         *)
(* A directory name "light_<s>_to_<e><suffix>" is the record               *)
(* [s |-> s, e |-> e, sfx |-> suffix is non-empty]; the suffix stands for  *)
(* trailing non-digit text such as "_old".  None is the empty set, a       *)
(* present value v is {v}.                                                 *)
(***************************************************************************)
EXTENDS Integers, Sequences, FiniteSets, TLC

\* ---- bounds of the explored inputs ----
MaxStart == 1
MaxBlocks == 3
MaxStep == 2
MaxInitEnd == 2

VARIABLES
  argStart, blocks, step, linux,
  pc, start, idx, processed_count, attempted,
  bpc, previous_proof_file, handed, steps_info, invoked, success, exc, logs,
  proofDirExists, dirs, proofs, cur, privContent, cleanupWarn, parseWarn,
  globbed,
  runIn, runOut, launches,
  runs, stepsUsed

inputs == <<argStart, blocks, step, linux>>
mainv == <<pc, start, idx, processed_count, attempted>>
batchv == <<bpc, previous_proof_file, globbed, handed, steps_info, invoked, success, exc, logs>>
fsv == <<proofDirExists, dirs, proofs, cur, privContent, cleanupWarn, parseWarn>>
runv == <<runIn, runOut, launches>>
histv == <<runs, stepsUsed>>
vars == <<inputs, mainv, batchv, fsv, runv, histv>>

\* ---- command line (argparse: --start optional int, --blocks int, --step int)
\* the documented inputs: a span of blocks >= 0 cut into batches of step >= 1
StartArgs == {{}} \cup {{h} : h \in 0..MaxStart}
BlocksArgs == {0, 1, MaxBlocks}
StepArgs == 1..MaxStep
\* argparse's type=int also lets through a zero or negative step and a
\* negative number of blocks
BlocksArgsCli == {-2} \cup BlocksArgs
StepArgsCli == {-1, 0} \cup StepArgs

\* ---- directory names under .proofs ----
\* Directories found under .proofs at process start: for one end height e,
\* any of light_0_to_<e>, light_<e-1>_to_<e> (batches of two step sizes that
\* end at e), light_0_to_<e>_old (a renamed copy) and light_0_to_<e-1>.
InitCandidates(e) ==
  {n \in { [s |-> 0, e |-> e, sfx |-> FALSE],
           [s |-> e - 1, e |-> e, sfx |-> FALSE],
           [s |-> 0, e |-> e, sfx |-> TRUE],
           [s |-> 0, e |-> e - 1, sfx |-> FALSE] } : n.s < n.e}
InitDirSets == UNION {SUBSET InitCandidates(e) : e \in 1..MaxInitEnd}
\* BatchName with the step written where the end height belongs
BatchNameEndIsStep(height, stp) == [s |-> height, e |-> stp, sfx |-> FALSE]

\* f"{mode}_{height}_to_{height + step}"
BatchName(height, stp) == [s |-> height, e |-> height + stp, sfx |-> FALSE]

\* PROOF_DIR.glob(f"{mode}_*_to_{height}"): the name must end in "_to_<height>"
GlobMatches(name, height) == ~name.sfx /\ name.e = height

\* re.compile(r"light_\d+_to_(\d+)").match(name): anchored at the start only,
\* \d+ accepts no sign
PatternMatches(name) == name.s >= 0 /\ name.e >= 0

\* int(m.group(1))
PatternEnd(name) == name.e

\* auto_detect_start(): scan of PROOF_DIR.iterdir() keeping the maximum
RECURSIVE ScanMax(_, _, _)
ScanMax(todo, prf, max_height) ==
  IF todo = {} THEN max_height
  ELSE LET proof_dir == CHOOSE d \in todo : TRUE
           rest == todo \ {proof_dir}
       IN IF PatternMatches(proof_dir) /\ proof_dir \in prf
             /\ PatternEnd(proof_dir) > max_height
          THEN ScanMax(rest, prf, PatternEnd(proof_dir))
          ELSE ScanMax(rest, prf, max_height)

auto_detect_start(exists, ds, prf) ==
  IF ~exists THEN 0 ELSE ScanMax(ds, prf, 0)

NoPriv == [ok |-> FALSE, trace |-> "absent", memory |-> "absent"]

\* ---- run(cmd, timeout=None) ----
MaxLines == 2
MaxTimeout == 2

\* the textual markers tested at lines 119-126
Markers == {"Maximum resident set size", "Command being timed", "User time",
            "System time", "Percent of CPU", "Elapsed (wall clock) time",
            "Average", "Exit status"}

\* A line of the captured error stream: whether it begins with a tab, the
\* marker it contains ("none": no marker), the number when the line matches
\* "Maximum resident set size (kbytes): <digits>" (kb, else {}), and an id
\* telling apart lines that are otherwise alike.
ErrLines ==
  {[tab |-> t, mark |-> m, kb |-> {}, id |-> 0] :
      t \in BOOLEAN, m \in Markers \cup {"none"}}
  \cup {[tab |-> t, mark |-> "Maximum resident set size", kb |-> {k}, id |-> 0] :
      t \in BOOLEAN, k \in {5, 7}}
  \cup {[tab |-> FALSE, mark |-> "none", kb |-> {}, id |-> 1]}

SeqsUpTo(S, n) == UNION {[1..k -> S] : k \in 0..n}

\* a call of run: the timeout ({}: None), how long the command takes, and
\* what it prints and returns when it is left to finish
RunInputs ==
  [timeout : {{}} \cup {{t} : t \in 1..MaxTimeout},
   duration : 1..(MaxTimeout + 1),
   stdout : {"", "out"},
   lines : SeqsUpTo(ErrLines, MaxLines),
   returncode : {0, 1}]

NoRun == [timeout |-> {}, duration |-> 1, stdout |-> "", lines |-> <<>>,
          returncode |-> 0]

\* state at process start, the command line aside
InitState ==
  /\ runs = 1
  /\ stepsUsed = {step}
  /\ runIn = NoRun
  /\ runOut = <<>>
  /\ launches = 0
  /\ argStart \in StartArgs
  /\ linux \in BOOLEAN
  /\ pc = "cli"
  /\ start = {}
  /\ idx = 0
  /\ processed_count = 0
  /\ attempted = <<>>
  /\ bpc = "idle"
  /\ previous_proof_file = {}
  /\ globbed = <<>>
  /\ handed = <<>>
  /\ steps_info = <<>>
  /\ invoked = <<>>
  /\ success = FALSE
  /\ exc = "none"
  /\ logs = {}
  /\ proofDirExists \in BOOLEAN
  /\ dirs \in InitDirSets
  /\ proofDirExists = FALSE => dirs = {}
  /\ proofs \in SUBSET dirs
  /\ cur = {}
  /\ privContent = NoPriv
  /\ cleanupWarn = {}
  /\ parseWarn = FALSE

Init ==
  /\ blocks \in BlocksArgs
  /\ step \in StepArgs
  /\ InitState

InitCli ==
  /\ blocks \in BlocksArgsCli
  /\ step \in StepArgsCli
  /\ InitState

\* ResolveStart testing the truth value of start ("if not start"), which
\* treats an explicit 0 like a missing --start
ResolveStartFalsy(arg, detected) ==
  IF arg = {} \/ arg = {0} THEN {detected} ELSE arg

\* lines 471-473: start = args.start; if start is None: start = auto_detect_start()
ResolveStart(arg, detected) ==
  IF arg = {} THEN {detected} ELSE arg

\* IsTimeLine without the test for a leading tab
IsTimeLineNoTab(line) == line.mark \in Markers

\* lines 117-127: the line is taken for output of /usr/bin/time
IsTimeLine(line) == line.tab \/ line.mark \in Markers

\* lines 114-131: the loop over result.stderr.splitlines(), keeping in
\* actual_stderr the lines that are not taken for output of /usr/bin/time
RECURSIVE CleanStderr(_, _, _)
CleanStderr(lines, i, actual_stderr) ==
  IF i > Len(lines) THEN actual_stderr
  ELSE IF IsTimeLine(lines[i])
       THEN CleanStderr(lines, i + 1, actual_stderr)
       ELSE CleanStderr(lines, i + 1, Append(actual_stderr, lines[i]))

\* lines 108-111: re.search(...) finds the first match; None when none
RECURSIVE MaxMemory(_, _)
MaxMemory(lines, i) ==
  IF i > Len(lines) THEN {}
  ELSE IF lines[i].kb # {} THEN lines[i].kb
       ELSE MaxMemory(lines, i + 1)

\* the stderr of a result: lines kept, or the message of line 135
StderrLines(lines) == [kind |-> "lines", seconds |-> {}, lines |-> lines]
StderrTimeout(t) == [kind |-> "timed out after", seconds |-> t, lines |-> <<>>]

\* TimeoutResult reporting the timeout with the exit code 1 of a failed tool
TimeoutResultExitOne(t, waited) ==
  [stdout |-> "", stderr |-> StderrTimeout(t), returncode |-> 1,
   elapsed |-> waited, max_memory |-> {}, raised |-> "none"]

\* lines 133-135: except subprocess.TimeoutExpired
TimeoutResult(t, waited) ==
  [stdout |-> "", stderr |-> StderrTimeout(t), returncode |-> -1,
   elapsed |-> waited, max_memory |-> {}, raised |-> "none"]

\* subprocess.run(..., timeout=timeout) raises TimeoutExpired when the
\* command is still running after timeout seconds
TimesOut(in) == in.timeout # {} /\ \E t \in in.timeout : in.duration > t

\* lines 89-135: run(cmd, timeout)
RunCall ==
  /\ pc = "run"
  /\ pc' = "ran"
  /\ IF ~linux
     THEN /\ launches' = launches
          /\ runOut' = <<[stdout |-> "", stderr |-> StderrLines(<<>>),
                          returncode |-> 0, elapsed |-> 0, max_memory |-> {},
                          raised |-> "RuntimeError"]>>
     ELSE /\ launches' = launches + 1
          /\ runOut' =
               IF TimesOut(runIn)
               THEN <<TimeoutResult(runIn.timeout,
                                    CHOOSE t \in runIn.timeout : TRUE)>>
               ELSE <<[stdout |-> runIn.stdout,
                       stderr |-> StderrLines(CleanStderr(runIn.lines, 1, <<>>)),
                       returncode |-> runIn.returncode,
                       elapsed |-> runIn.duration,
                       max_memory |-> MaxMemory(runIn.lines, 1),
                       raised |-> "none"]>>
  /\ UNCHANGED <<histv, runIn, inputs, start, idx, processed_count, attempted, batchv, fsv>>

\* one call of run with any command behaviour and timeout
InitRun ==
  /\ runs = 1
  /\ stepsUsed = {1}
  /\ runIn \in RunInputs
  /\ runOut = <<>>
  /\ launches = 0
  /\ argStart = {} /\ blocks = 0 /\ step = 1
  /\ linux \in BOOLEAN
  /\ pc = "run"
  /\ start = {} /\ idx = 0 /\ processed_count = 0 /\ attempted = <<>>
  /\ bpc = "idle" /\ previous_proof_file = {} /\ globbed = <<>>
  /\ handed = <<>> /\ steps_info = <<>> /\ invoked = <<>>
  /\ success = FALSE /\ exc = "none" /\ logs = {}
  /\ proofDirExists = FALSE /\ dirs = {} /\ proofs = {} /\ cur = {}
  /\ privContent = NoPriv /\ cleanupWarn = {} /\ parseWarn = FALSE

NextRun == RunCall

SpecRun == InitRun /\ [][NextRun]_vars

\* __main__: start = args.start; if start is None: start = auto_detect_start()
Startup ==
  /\ pc = "cli"
  /\ start' = ResolveStart(argStart, auto_detect_start(proofDirExists, dirs, proofs))
  /\ pc' = "main"
  /\ UNCHANGED <<histv, runv, inputs, idx, processed_count, attempted, batchv, fsv>>


\* ---- main(start, blocks, step) ----
StartHeight == CHOOSE h \in start : TRUE
End == StartHeight + blocks

\* range(start, end, step): the idx-th element and the iterator's stop test
HeightAt(i) == StartHeight + i * step

\* InRange with the end of the span included
InRangeInclusive(h) == \/ step > 0 /\ h <= End
                       \/ step < 0 /\ h >= End

InRange(h) == \/ step > 0 /\ h < End
              \/ step < 0 /\ h > End
Height == HeightAt(idx)

\* lines 399-415: PROOF_DIR.mkdir(exist_ok=True), then range(start, end, step),
\* which raises ValueError when step is 0
MainBegin ==
  /\ pc = "main"
  /\ proofDirExists' = TRUE
  /\ IF step = 0
     THEN pc' = "raised" /\ exc' = "ValueError"
     ELSE pc' = "loop" /\ exc' = exc
  /\ idx' = 0
  /\ processed_count' = 0
  /\ UNCHANGED <<histv, runv, inputs, start, attempted, bpc, previous_proof_file, globbed,
                 handed, steps_info, invoked, success, logs,
                 dirs, proofs, cur, privContent, cleanupWarn, parseWarn>>

\* line 418-419: next height of the range, call prove_batch(height, step);
\* line 426 when the range is exhausted
LoopNext ==
  /\ pc = "loop"
  /\ IF InRange(Height)
     THEN /\ pc' = "batch"
          /\ bpc' = "mkdir"
          /\ attempted' = Append(attempted, Height)
          /\ previous_proof_file' = {}
          /\ globbed' = <<>>
          /\ handed' = <<>>
          /\ steps_info' = <<>>
          /\ invoked' = <<>>
          /\ exc' = "none"
          /\ logs' = {}
     ELSE /\ pc' = "done"
          /\ UNCHANGED <<bpc, attempted, previous_proof_file, globbed, handed,
                         steps_info, invoked, exc, logs>>
  /\ UNCHANGED <<histv, runv, inputs, start, idx, processed_count, success, fsv>>

\* ---- prove_batch(height, step) ----
batch_dir == BatchName(Height, step)

\* what an earlier run may have left in a batch directory that is reused
Leftovers == { {}, {"pie.cairo_pie.zip"},
               {"pie.cairo_pie.zip", "priv.json", "pub.json"} }

\* an exception raised inside the try block of prove_batch (line 310)
Raise(e) ==
  /\ exc' = e
  /\ bpc' = "except"

\* lines 312-314: batch_dir.mkdir(exist_ok=True)
BatchMkdir ==
  /\ pc = "batch" /\ bpc = "mkdir"
  /\ \/ /\ dirs' = dirs \cup {batch_dir}
        /\ IF batch_dir \in dirs THEN cur' \in Leftovers ELSE cur' = {}
        /\ bpc' = "resolve"
        /\ exc' = exc
     \/ /\ Raise("OSError")
        /\ UNCHANGED <<dirs, cur>>
  /\ UNCHANGED <<histv, runv, inputs, mainv, previous_proof_file, globbed, handed, steps_info,
                 invoked, success, logs, proofDirExists, proofs, privContent,
                 cleanupWarn, parseWarn>>

\* every order in which glob may yield the members of S
Orders(S) == {f \in [1..Cardinality(S) -> S] :
                \A i, j \in 1..Cardinality(S) : i # j => f[i] # f[j]}

\* PrevLoop without the break of line 323: the last directory enumerated wins
PrevLoopNoBreak(order, i, prev, prf) ==
  IF Len(order) = 0 THEN prev ELSE {order[Len(order)]}

\* lines 320-323: the for loop over the glob results; prev is
\* previous_proof_file on entry to iteration i
RECURSIVE PrevLoop(_, _, _, _)
PrevLoop(order, i, prev, prf) ==
  IF i > Len(order) THEN prev
  ELSE IF order[i] \in prf THEN {order[i]}
       ELSE PrevLoop(order, i + 1, {order[i]}, prf)

\* lines 317-323
BatchResolve ==
  /\ pc = "batch" /\ bpc = "resolve"
  /\ \/ /\ IF Height > 0
           THEN \E order \in Orders({d \in dirs : GlobMatches(d, Height)}) :
                  /\ globbed' = order
                  /\ previous_proof_file' = PrevLoop(order, 1, {}, proofs)
           ELSE /\ globbed' = <<>>
                /\ previous_proof_file' = {}
        /\ bpc' = "data"
        /\ exc' = exc
     \/ /\ Height > 0
        /\ Raise("OSError")
        /\ UNCHANGED <<globbed, previous_proof_file>>
  /\ UNCHANGED <<histv, runv, inputs, mainv, handed, steps_info, invoked, success, logs, fsv>>

\* lines 328-336: generate_data(...) and batch_file.write_text(...)
BatchData ==
  /\ pc = "batch" /\ bpc = "data"
  /\ \/ /\ cur' = cur \cup {"batch.json"}
        /\ bpc' = "args"
        /\ exc' = exc
     \/ /\ Raise("Exception")
        /\ UNCHANGED cur
  /\ UNCHANGED <<histv, runv, inputs, mainv, previous_proof_file, globbed, handed, steps_info,
                 invoked, success, logs, proofDirExists, dirs, proofs,
                 privContent, cleanupWarn, parseWarn>>

\* lines 341-343: generate_assumevalid_args(batch_file, previous_proof_file)
\* and arguments_file.write_text(...); handed records the second argument
BatchArgs ==
  /\ pc = "batch" /\ bpc = "args"
  /\ handed' = <<previous_proof_file>>
  /\ \/ /\ cur' = cur \cup {"arguments.json"}
        /\ bpc' = "PIE"
        /\ exc' = exc
     \/ /\ Raise("Exception")
        /\ UNCHANGED cur
  /\ UNCHANGED <<histv, runv, inputs, mainv, previous_proof_file, globbed, steps_info,
                 invoked, success, logs, proofDirExists, dirs, proofs,
                 privContent, cleanupWarn, parseWarn>>

\* ---- run_prover(job_info, executable, proof, arguments) ----
\* exit codes of the external tools: 0 is success
ReturnCodes == {0, 1}

\* StepInfo(step=..., returncode=...)
Info(name, rc) == [step |-> name, returncode |-> rc]

\* StopAfter without the returncode test: the pipeline goes on after a failure
StopAfterNever(rc) == FALSE

\* lines 211 and 238: if returncode != 0: return steps_info
StopAfter(rc) == rc # 0

\* CleanupRuns without the returncode test: cleanup after every PROVE
CleanupAlways(rc) == TRUE

\* line 273: if returncode == 0: (clean up the intermediate files)
CleanupRuns(rc) == rc = 0

\* what the bootloader may have written into priv.json: unparsable text
\* (NoPriv), or an object whose trace_path / memory_path is absent, not a
\* string ("nonstr"), or the path of a file of the batch directory
PrivContents ==
  { NoPriv,
    [ok |-> TRUE, trace |-> "absent", memory |-> "absent"],
    [ok |-> TRUE, trace |-> "trace.bin", memory |-> "memory.bin"],
    [ok |-> TRUE, trace |-> "nonstr", memory |-> "memory.bin"],
    [ok |-> TRUE, trace |-> "trace.bin", memory |-> "nonstr"],
    [ok |-> TRUE, trace |-> "proof.json", memory |-> "absent"] }
IsPath(v) == v \notin {"absent", "nonstr"}
BootloadOutputs(c) == {"priv.json", "pub.json"}
                      \cup ({c.trace} \cap {"trace.bin"})
                      \cup ({c.memory} \cap {"memory.bin"})

\* lines 274-290: the list temp_files
TempFiles(c, privExists) ==
  {"pie.cairo_pie.zip", "pub.json"}
  \cup (IF privExists THEN {"priv.json"} ELSE {})
  \cup (IF privExists /\ c.ok /\ IsPath(c.trace) THEN {c.trace} ELSE {})
  \cup (IF privExists /\ c.ok /\ c.trace # "nonstr" /\ IsPath(c.memory)
        THEN {c.memory} ELSE {})

\* lines 288-289: json.load or Path(...) raised while reading priv.json
ParseFails(c) == ~c.ok \/ c.trace = "nonstr" \/ c.memory = "nonstr"

\* run(cmd) raising before the tool is started: line 95-98 off Linux, or
\* subprocess.run unable to start /usr/bin/time
RunRaises ==
  /\ IF linux THEN Raise("OSError") ELSE Raise("RuntimeError")
  /\ UNCHANGED <<steps_info, invoked, logs, proofs, cur, privContent,
                 cleanupWarn, parseWarn>>

\* line 142: batch_dir / f"{step_name.lower()}.log"
LogFile(name) ==
  CASE name = "PIE" -> "pie.log"
    [] name = "BOOTLOAD" -> "bootload.log"
    [] name = "PROVE" -> "prove.log"

\* LogAndGo returning on a failed step before its log is written
LogAndGoFailureUnlogged(name, rc, logged, nextpc) ==
  IF StopAfter(rc)
  THEN /\ logs' = logs
       /\ exc' = exc
       /\ bpc' = "returned"
  ELSE IF logged
       THEN /\ logs' = logs \cup {<<LogFile(name), rc>>}
            /\ exc' = exc
            /\ bpc' = nextpc
       ELSE /\ logs' = logs
            /\ Raise("OSError")

\* save_prover_log (lines 138-161) after the step was appended to steps_info:
\* either open/write raises, or the log file is written ("w": replacing an
\* older one) with the step's return code, and run_prover goes on
LogAndGo(name, rc, logged, nextpc) ==
  IF logged
  THEN /\ logs' = logs \cup {<<LogFile(name), rc>>}
       /\ exc' = exc
       /\ bpc' = IF StopAfter(rc) THEN "returned" ELSE nextpc
  ELSE /\ logs' = logs
       /\ Raise("OSError")

\* lines 186-212
PieStep ==
  /\ pc = "batch" /\ bpc = "PIE"
  /\ \/ RunRaises
     \/ /\ linux
        /\ \E rc \in ReturnCodes, wrote, logged \in BOOLEAN :
             /\ rc = 0 => wrote
             /\ invoked' = Append(invoked, "PIE")
             /\ steps_info' = Append(steps_info, Info("PIE", rc))
             /\ cur' = IF wrote THEN cur \cup {"pie.cairo_pie.zip"} ELSE cur
             /\ LogAndGo("PIE", rc, logged, "BOOTLOAD")
        /\ UNCHANGED <<proofs, privContent, cleanupWarn, parseWarn>>
  /\ UNCHANGED <<histv, runv, inputs, mainv, previous_proof_file, globbed, handed, success,
                 proofDirExists, dirs>>

\* lines 215-240
BootloadStep ==
  /\ pc = "batch" /\ bpc = "BOOTLOAD"
  /\ \/ RunRaises
     \/ /\ linux
        /\ \E rc \in ReturnCodes, wrote, logged \in BOOLEAN :
             /\ rc = 0 => wrote
             /\ invoked' = Append(invoked, "BOOTLOAD")
             /\ steps_info' = Append(steps_info, Info("BOOTLOAD", rc))
             /\ IF rc = 0
                THEN \E c \in PrivContents :
                       /\ privContent' = c
                       /\ cur' = cur \cup BootloadOutputs(c)
                ELSE /\ privContent' = privContent
                     /\ cur' = IF wrote THEN cur \cup {"priv.json", "pub.json"}
                               ELSE cur
             /\ LogAndGo("BOOTLOAD", rc, logged, "PROVE")
        /\ UNCHANGED <<proofs, cleanupWarn, parseWarn>>
  /\ UNCHANGED <<histv, runv, inputs, mainv, previous_proof_file, globbed, handed, success,
                 proofDirExists, dirs>>

\* lines 243-300: the PROVE step and, when it exits 0, the cleanup
ProveStep ==
  /\ pc = "batch" /\ bpc = "PROVE"
  /\ \/ RunRaises
     \/ /\ linux
        /\ \E rc \in ReturnCodes, wrote, logged \in BOOLEAN :
             /\ rc = 0 => wrote
             /\ invoked' = Append(invoked, "PROVE")
             /\ steps_info' = Append(steps_info, Info("PROVE", rc))
             /\ LogAndGo("PROVE", rc, logged, "returned")
             /\ LET written == IF wrote THEN proofs \cup {batch_dir} ELSE proofs
                    temp == TempFiles(privContent, "priv.json" \in cur)
                    existing == {f \in temp :
                                   \/ f \in cur
                                   \/ f = "proof.json" /\ batch_dir \in written}
                IN IF logged /\ CleanupRuns(rc)
                   THEN \E failed \in SUBSET existing :
                          /\ cur' = cur \ (existing \ failed)
                          /\ proofs' = IF "proof.json" \in existing \ failed
                                       THEN written \ {batch_dir} ELSE written
                          /\ cleanupWarn' = failed
                          /\ parseWarn' = ("priv.json" \in cur /\ ParseFails(privContent))
                   ELSE /\ cur' = cur
                        /\ proofs' = written
                        /\ UNCHANGED <<cleanupWarn, parseWarn>>
        /\ UNCHANGED privContent
  /\ UNCHANGED <<histv, runv, inputs, mainv, previous_proof_file, globbed, handed, success,
                 proofDirExists, dirs>>

\* ---- prove_batch, after run_prover ----
\* FinalOK looking at the first step instead of the last
FinalOKFirst(steps) == steps[1].returncode = 0

\* lines 363-365: last_step = steps_info[-1]; final_return_code == 0
FinalOK(steps) == steps[Len(steps)].returncode = 0

\* lines 356-388
BatchFinish ==
  /\ pc = "batch" /\ bpc = "returned"
  /\ success' = FinalOK(steps_info)
  /\ pc' = "after"
  /\ bpc' = "idle"
  /\ UNCHANGED <<histv, runv, inputs, start, idx, processed_count, attempted,
                 previous_proof_file, globbed, handed, steps_info, invoked,
                 exc, logs, fsv>>

\* Catches as "except OSError": other exceptions pass through
CatchesOnlyOSError(e) == e = "OSError"

\* Catches with RuntimeError left to propagate
CatchesNotRuntimeError(e) == e \in {"OSError", "ValueError", "Exception"}

\* line 390: except Exception
Catches(e) == e \in {"OSError", "RuntimeError", "ValueError", "Exception"}

\* lines 390-394
BatchExcept ==
  /\ pc = "batch" /\ bpc = "except"
  /\ IF Catches(exc)
     THEN /\ success' = FALSE
          /\ pc' = "after"
          /\ bpc' = "idle"
     ELSE /\ pc' = "raised"
          /\ UNCHANGED <<success, bpc>>
  /\ UNCHANGED <<histv, runv, inputs, start, idx, processed_count, attempted,
                 previous_proof_file, globbed, handed, steps_info, invoked,
                 exc, logs, fsv>>

\* StopsOn without the return of line 424: the loop goes on after a failure
StopsNever(ok) == FALSE

\* lines 420-424: if success: ... else: ... return
StopsOn(ok) == ~ok

\* lines 420-424.  The intermediate files of a finished batch are not read
\* again by this run, so the view cur of the batch directory is dropped here.
MainAfterBatch ==
  /\ pc = "after"
  /\ IF StopsOn(success)
     THEN /\ pc' = "done"
          /\ UNCHANGED <<processed_count, idx>>
     ELSE /\ processed_count' = IF success THEN processed_count + 1
                                ELSE processed_count
          /\ idx' = idx + 1
          /\ pc' = "loop"
  /\ cur' = {}
  /\ privContent' = NoPriv
  /\ cleanupWarn' = {}
  /\ parseWarn' = FALSE
  /\ UNCHANGED <<histv, runv, inputs, start, attempted, batchv, proofDirExists, dirs, proofs>>

Next ==
  \/ Startup
  \/ MainBegin
  \/ LoopNext
  \/ BatchMkdir
  \/ BatchResolve
  \/ BatchData
  \/ BatchArgs
  \/ PieStep
  \/ BootloadStep
  \/ ProveStep
  \/ BatchFinish
  \/ BatchExcept
  \/ MainAfterBatch

Spec == Init /\ [][Next]_vars

\* the same program started with any command line argparse accepts
SpecCli == InitCli /\ [][Next]_vars

\* ---- successive runs on one .proofs directory ----
MaxRuns == 2

\* positive --blocks values
BlocksArgsPositive == BlocksArgs \ {0}

\* the first run: no --start, an empty working directory
InitRuns ==
  /\ blocks \in BlocksArgsPositive
  /\ step \in StepArgs
  /\ InitState
  /\ argStart = {}
  /\ proofDirExists = FALSE

\* lines 450-470: the process has ended and the script is started again
\* without --start; .proofs is what the earlier runs left
Restart ==
  /\ pc = "done"
  /\ runs < MaxRuns
  /\ runs' = runs + 1
  /\ blocks' \in BlocksArgsPositive
  /\ step' \in StepArgs
  /\ stepsUsed' = stepsUsed \cup {step'}
  /\ pc' = "cli"
  /\ start' = {}
  /\ idx' = 0
  /\ processed_count' = 0
  /\ attempted' = <<>>
  /\ bpc' = "idle"
  /\ previous_proof_file' = {}
  /\ globbed' = <<>>
  /\ handed' = <<>>
  /\ steps_info' = <<>>
  /\ invoked' = <<>>
  /\ success' = FALSE
  /\ exc' = "none"
  /\ logs' = {}
  /\ UNCHANGED <<runv, argStart, linux, fsv>>

NextRuns ==
  \/ Next
  \/ Restart

SpecRuns == InitRuns /\ [][NextRuns]_vars

TypeOK ==
  /\ pc \in {"cli", "main", "loop", "batch", "after", "done", "raised",
              "run", "ran"}
  /\ bpc \in {"idle", "mkdir", "resolve", "data", "args", "PIE", "BOOTLOAD",
              "PROVE", "returned", "except"}
  /\ proofs \subseteq dirs
  /\ Len(steps_info) <= 3

\* ======================= properties =======================

StrictlyIncreasing(seq) ==
  \A i, j \in 1..Len(seq) : i < j => seq[i] < seq[j]

\* C1: batches are attempted in strictly increasing height order, a batch is
\* attempted only when every earlier one succeeded, and when the run has
\* stopped on a failed batch the processed count is the number of batches
\* before it.
C1_FailStopOrdering ==
  /\ StrictlyIncreasing(attempted)
  /\ pc \in {"batch", "after"} => processed_count = Len(attempted) - 1
  /\ pc = "loop" => processed_count = Len(attempted)
  /\ (pc = "loop" /\ attempted # <<>>) => success
  /\ (pc = "done" /\ attempted # <<>> /\ ~success)
        => processed_count = Len(attempted) - 1

C1_Witness ==
  /\ pc = "done" /\ ~success
  /\ Len(attempted) = 2
  /\ processed_count = 1
  /\ InRange(HeightAt(2))

PipelineOrder == <<"PIE", "BOOTLOAD", "PROVE">>

\* C2: the steps invoked, and the list run_prover returns, are a prefix of
\* PIE, BOOTLOAD, PROVE, each step at most once; a step is invoked only after
\* the previous one exited 0; every returned element but the last has exit
\* code 0; a failed PIE gives a list of length 1.
C2_StepShortCircuit ==
  /\ Len(invoked) <= 3
  /\ \A i \in 1..Len(invoked) : invoked[i] = PipelineOrder[i]
  /\ \A i \in 2..Len(invoked) : steps_info[i - 1].returncode = 0
  /\ bpc = "returned" =>
       /\ Len(steps_info) \in 1..3
       /\ Len(invoked) = Len(steps_info)
       /\ \A i \in 1..Len(steps_info) : steps_info[i].step = PipelineOrder[i]
       /\ \A i \in 1..(Len(steps_info) - 1) : steps_info[i].returncode = 0
       /\ steps_info[1].returncode # 0 =>
            Len(steps_info) = 1 /\ invoked = <<"PIE">>

C2_Witness ==
  /\ bpc = "returned"
  /\ Len(steps_info) = 1
  /\ steps_info[1].returncode # 0

\* the batch directories whose name ends at the current height
MatchingDirs == {d \in dirs : GlobMatches(d, Height)}

\* the argument-file generator has just been called
ArgsGenerated == pc = "batch" /\ bpc = "PIE"

\* C3: when no directory ending at H > 0 holds proof.json, or H is 0, the
\* predecessor handed to the argument-file generator is none.
C3_NoProofNoPredecessor ==
  ArgsGenerated =>
    ((Height = 0 \/ (Height > 0 /\ MatchingDirs \cap proofs = {}))
       => handed = <<{}>>)

\* C4: when some directory ending at H > 0 holds proof.json, the predecessor
\* handed to the generator is the proof of the first directory enumerated
\* that holds one, a directory that ends at H; at height 0 it is none.
C4_Chaining ==
  ArgsGenerated =>
    /\ Height = 0 => handed = <<{}>>
    /\ (Height > 0 /\ MatchingDirs \cap proofs # {}) =>
         /\ {globbed[i] : i \in 1..Len(globbed)} = MatchingDirs
         /\ \E i \in 1..Len(globbed) :
              /\ globbed[i] \in proofs
              /\ \A j \in 1..(i - 1) : globbed[j] \notin proofs
              /\ handed = <<{globbed[i]}>>
              /\ GlobMatches(globbed[i], Height)

C4_Witness ==
  /\ ArgsGenerated
  /\ Len(globbed) = 2
  /\ globbed[1] \notin proofs
  /\ handed = <<{globbed[2]}>>

Intermediates == {"pie.cairo_pie.zip", "priv.json", "pub.json"}

\* exit code of the PROVE step, when it was reached
ProveExit == IF Len(steps_info) = 3 THEN {steps_info[3].returncode} ELSE {}

\* the files named by trace_path and memory_path inside priv.json
NamedFiles(c) == IF c.ok THEN {v \in {c.trace, c.memory} : IsPath(v)} ELSE {}

\* presence of a file of the current batch directory
Present(f) == f \in cur \/ (f = "proof.json" /\ batch_dir \in proofs)

\* unless PROVE has exited 0, no step of the job removes an intermediate file
KeptUnlessProved ==
  (pc = "batch" /\ ProveExit' # {0}) =>
     \A f \in Intermediates : f \in cur => f \in cur'

\* C5 as stated: intermediates survive unless PROVE exits 0; when PROVE exits
\* 0 the intermediates and the files named inside priv.json are all absent
\* when the job returns.
C5_CleanupGating ==
  [][ /\ KeptUnlessProved
      /\ (pc' = "after" /\ ProveExit' = {0}) =>
            \A f \in Intermediates \cup NamedFiles(privContent') : ~Present(f)'
    ]_vars

\* C5 amended: intermediates survive unless PROVE exits 0; when the job
\* succeeds, each intermediate is absent on return unless its deletion failed
\* (a warning is logged), and each file named inside priv.json is absent
\* unless its deletion failed or priv.json could not be read for cleanup.
C5_CleanupBestEffort ==
  [][ /\ KeptUnlessProved
      /\ (pc' = "after" /\ success') =>
            /\ ProveExit' = {0}
            /\ \A f \in Intermediates : f \notin cur' \/ f \in cleanupWarn'
            /\ \A f \in NamedFiles(privContent') :
                 ~Present(f)' \/ f \in cleanupWarn' \/ parseWarn'
    ]_vars

C5_Witness ==
  /\ pc = "after" /\ success
  /\ privContent.ok /\ privContent.trace = "trace.bin"
  /\ privContent.memory = "memory.bin"
  /\ cur \cap (Intermediates \cup {"trace.bin", "memory.bin"}) = {"pie.cairo_pie.zip"}
  /\ cleanupWarn = {"pie.cairo_pie.zip"}

\* directories named <mode>_<start>_to_<end> that hold proof.json
Qualifying == {d \in dirs : ~d.sfx /\ d \in proofs}

MaxEnd(S) == IF S = {} THEN 0
             ELSE CHOOSE m \in {d.e : d \in S} : \A d \in S : d.e <= m

\* C6: auto_detect_start() returns the maximum end height over the
\* directories that follow the naming convention and hold proof.json, and 0
\* when there is none or .proofs is missing.
C6_ResumeMaxQualifying ==
  (pc = "main" /\ argStart = {}) => start = {MaxEnd(Qualifying)}

\* C7: no exception leaves prove_batch: a batch job in progress either goes
\* on or returns, and an exception raised inside it makes it return False.
C7_Contained ==
  [][ /\ pc = "batch" => pc' \in {"batch", "after"}
      /\ bpc = "except" => (pc' = "after" /\ success' = FALSE)
    ]_vars

C7_Witness == pc = "after" /\ exc = "Exception" /\ ~success

\* C8 as stated: the RuntimeError raised by run off Linux is not turned into
\* a batch failure; the run aborts abnormally.
C8_FatalNotCaught ==
  exc = "RuntimeError" => pc \in {"batch", "raised"} /\ (bpc = "except" \/ pc = "raised")

\* C8 amended: off Linux run raises before any tool is started; prove_batch
\* catches the RuntimeError and returns False, and main stops after that
\* first batch and returns normally with nothing processed.
C8_CaughtAsBatchFailure ==
  /\ ~linux => invoked = <<>> /\ bpc \notin {"BOOTLOAD", "PROVE", "returned"}
  /\ exc = "RuntimeError" =>
       /\ ~linux
       /\ pc \in {"batch", "after", "done"}
       /\ pc \in {"after", "done"} =>
            ~success /\ processed_count = 0 /\ Len(attempted) = 1

C8_Witness == exc = "RuntimeError" /\ pc = "done" /\ ~success

AllThreeZero ==
  /\ Len(steps_info) = 3
  /\ \A i \in 1..3 : steps_info[i].returncode = 0

LastFailed ==
  steps_info # <<>> /\ steps_info[Len(steps_info)].returncode # 0

\* C9 as stated: prove_batch returns True exactly when all three steps ran
\* and exited 0, and False whenever the last step has a non-zero exit code.
C9_TrueIffAllZero ==
  pc = "after" => /\ success <=> AllThreeZero
                  /\ LastFailed => ~success

\* C9 amended: prove_batch returns True exactly when run_prover returned
\* without an exception and all three steps exited 0; an exception raised
\* after a step exited 0 (writing its log) makes it return False.
C9_TrueIffReturnedAllZero ==
  pc = "after" => /\ success <=> (exc = "none" /\ AllThreeZero)
                  /\ LastFailed => ~success

C9_Witness == pc = "after" /\ success /\ AllThreeZero

\* C10: main never raises, whatever integers the command line supplies.
C10_MainNeverRaises == pc # "raised"

\* C11: when run_prover returns, the log file of every step of the returned
\* list was written in this call and holds that step's exit code, failed or
\* not; at no time is there a log of this call for a step not attempted.
C11_StepLogs ==
  /\ \A l \in logs : \E i \in 1..Len(invoked) : l[1] = LogFile(invoked[i])
  /\ bpc = "returned" =>
       /\ \A i \in 1..Len(steps_info) :
            <<LogFile(steps_info[i].step), steps_info[i].returncode>> \in logs
       /\ Cardinality(logs) = Len(steps_info)

C11_Witness ==
  /\ bpc = "returned"
  /\ logs = {<<"pie.log", 0>>, <<"bootload.log", 1>>}

\* C12: proof.json is never deleted: a directory that holds proof.json holds
\* it in every later state.
C12_ProofNeverDeleted == [][proofs \subseteq proofs']_vars

\* main has returned after the last height of the range, every batch having
\* succeeded
FullSuccess == pc = "done" /\ (attempted = <<>> \/ success)

\* the heights start, start+step, ... below start+blocks (step > 0)
ExpectedHeights ==
  {h \in StartHeight..(End - 1) : (h - StartHeight) % step = 0}

\* C15: with step > 0 and every batch succeeding, main attempts exactly the
\* heights start, start+step, ... below start+blocks, once each and in
\* increasing order, and ends with the processed count equal to their number.
C15_HeightSequence ==
  (step > 0 /\ FullSuccess) =>
     /\ Len(attempted) = Cardinality(ExpectedHeights)
     /\ \A i \in 1..Len(attempted) : attempted[i] = StartHeight + (i - 1) * step
     /\ {attempted[i] : i \in 1..Len(attempted)} = ExpectedHeights
     /\ processed_count = Cardinality(ExpectedHeights)

C15_Witness ==
  /\ FullSuccess
  /\ step = 2
  /\ attempted = <<StartHeight, StartHeight + 2>>
  /\ processed_count = 2

\* the heights covered by the batches attempted: [h, h + step) for each
Covered ==
  UNION {attempted[i]..(attempted[i] + step - 1) : i \in 1..Len(attempted)}

\* C16: in a fully successful run the batch ranges cover exactly the span
\* [start, start+blocks), and no batch directory of the run ends beyond
\* start+blocks.
C16_ProcessedSpan ==
  (step > 0 /\ FullSuccess) =>
     /\ Covered = StartHeight..(End - 1)
     /\ \A i \in 1..Len(attempted) : BatchName(attempted[i], step).e <= End

\* C19: an explicit --start, 0 included, is the height main runs from,
\* whatever auto_detect_start() would return; without --start the height is
\* the result of auto_detect_start().
C19_ExplicitStartOverrides ==
  pc = "main" =>
     /\ argStart # {} => start = argStart
     /\ argStart = {} => start = {auto_detect_start(proofDirExists, dirs, proofs)}

C19_Witness ==
  /\ pc = "main"
  /\ argStart = {0}
  /\ start = {0}
  /\ auto_detect_start(proofDirExists, dirs, proofs) > 0

\* run has returned a result
Returned == pc = "ran" /\ runOut # <<>> /\ runOut[1].raised = "none"

\* C14: a command still running after the timeout makes run return exit
\* code -1, empty stdout, a stderr message naming the timeout and no peak
\* memory, as an ordinary result, the command having been started once.
C14_TimeoutOutcome ==
  (pc = "ran" /\ linux /\ runIn.timeout # {}
     /\ \A t \in runIn.timeout : runIn.duration > t) =>
       /\ Returned
       /\ runOut[1].returncode = -1
       /\ runOut[1].stdout = ""
       /\ runOut[1].stderr.kind = "timed out after"
       /\ runOut[1].stderr.seconds = runIn.timeout
       /\ runOut[1].max_memory = {}
       /\ launches = 1

C14_Witness ==
  /\ Returned
  /\ runIn.timeout = {1} /\ runIn.duration = 2
  /\ runIn.stdout = "out" /\ runIn.lines # <<>>
  /\ runOut[1].returncode = -1

\* a line that neither begins with a tab nor contains a marker
Genuine(line) == ~line.tab /\ line.mark \notin Markers

\* the numbers on the lines "Maximum resident set size (kbytes): <n>"
PeakNumbers(lines) == UNION {lines[i].kb : i \in 1..Len(lines)}

\* C18: when the command completes, the stderr returned is exactly the
\* lines, in their order, that neither begin with a tab nor contain a
\* marker, and the peak memory is the number on the maximum-resident-set-size
\* line, absent when there is no such line.
C18_StderrSeparation ==
  (Returned /\ ~TimesOut(runIn)) =>
     /\ runOut[1].stderr = StderrLines(SelectSeq(runIn.lines, Genuine))
     /\ PeakNumbers(runIn.lines) = {} => runOut[1].max_memory = {}
     /\ PeakNumbers(runIn.lines) # {} =>
          /\ runOut[1].max_memory # {}
          /\ runOut[1].max_memory \subseteq PeakNumbers(runIn.lines)

C18_Witness ==
  /\ Returned /\ ~TimesOut(runIn)
  /\ Len(runIn.lines) = 2
  /\ ~Genuine(runIn.lines[1]) /\ runIn.lines[1].tab /\ runIn.lines[1].kb = {5}
  /\ Genuine(runIn.lines[2])
  /\ runOut[1].stderr.lines = <<runIn.lines[2]>>
  /\ runOut[1].max_memory = {5}

\* the run has stopped on the failure of the batch it attempted last
StoppedOnFailure == pc = "done" /\ attempted # <<>> /\ ~success

\* C13: after a run started at the auto-detected height has stopped on the
\* failed batch at height H, auto_detect_start() returns H.
C13_ResumeAtFailedHeight ==
  (StoppedOnFailure /\ argStart = {}) =>
     auto_detect_start(proofDirExists, dirs, proofs) = attempted[Len(attempted)]

\* batch directories ending at height h
EndingAt(h) == {d \in dirs : d.e = h}

\* C17 as stated: whatever the steps of the runs, no two batch directories
\* have the same end height.
C17_UniqueEndAnySteps ==
  \A d \in dirs : Cardinality(EndingAt(d.e)) <= 1

\* C17 amended: when every run so far used the same step, no two batch
\* directories have the same end height.
C17_UniqueEndSameStep ==
  stepsUsed = {step} => \A d \in dirs : Cardinality(EndingAt(d.e)) <= 1

C17_Witness ==
  /\ runs = 2
  /\ stepsUsed = {step}
  /\ pc = "done"
  /\ Cardinality(dirs) >= 2
  /\ dirs # proofs
====
